---- MODULE Spec2Model ----
(***************************************************************************)
(* Doc-Reviewer: the review workflow (review_workflow.py) and the Flask    *)
(* handlers that drive it (app.py).                                        *)
(*                                                                         *)
(* One review request is in flight at a time (a client that waits for its  *)
(* response); persona updates arrive concurrently with it, as the threaded *)
(* Flask server allows; the next request is taken once the pool threads of *)
(* the previous one have ended.  Texts are sequences: <<>> is the empty    *)
(* string.  The workflow is run as langgraph runs it: in supersteps, the   *)
(* tasks of one step in pool threads, their writes applied after the step, *)
(* one event per finished task, an exception ending the stream.            *)
(***************************************************************************)
EXTENDS Integers, Sequences, FiniteSets, TLC

\* ------------------------------------------------------------------ bounds
NumIds == 2
NumNames == 2
NumDocs == 1

IdPool == <<"strict", "forgiving", "kind", "travel_expert">>
NamePool == <<"Strict Reviewer", "Forgiving Reviewer", "Kind Reviewer", "Travel Expert">>
DocPool == <<"D", "E", "F">>

Ids == {IdPool[i] : i \in 1..NumIds}
Names == {NamePool[i] : i \in 1..NumNames}
Docs == {<<>>} \cup {<<"doc", DocPool[i]>> : i \in 1..NumDocs}

IdIndex(p) == CHOOSE i \in 1..NumIds : IdPool[i] = p

\* A persona dict: persona key -> display name.  The persona's prompt is
\* owned by its key and is abstracted by it.
PersonaDicts == UNION {[K -> Names] : K \in SUBSET Ids}
EmptyDict == [k \in {} |-> <<>>]

VARIABLES
    personas_file,        \* contents of personas.json
    review_app,           \* the process-wide compiled workflow
    upd_pc,               \* update_personas: "idle" | "saved"
    upd_new,              \* update_personas: its new_personas
    upd_dup,              \* the submitted form named an existing id as new_id
    upd_result,           \* outcome of the last update_personas: "none" | "redirect" | "error"
    pc,                   \* phase of the review request / workflow execution
    exec_graph,           \* the compiled workflow review() called stream() on
    document,
    selected_reviewers,
    supervisor_feedback,
    reviews,
    final_feedback,
    status,               \* selected persona key -> state of its task
    writes,               \* persona key -> fragment returned by its task, not yet applied
    events,               \* the events stream() has yielded, in order
    calls,                \* node name -> number of model.invoke calls by that node
    error,                \* what stream() raised: "none" | "KeyError" | "GenerationError"
    gen_failed,           \* the nodes whose model.invoke call raised
    view                  \* review()'s locals supervisor_feedback, reviews, final_feedback

vars == <<personas_file, review_app, upd_pc, upd_new, upd_dup, upd_result, pc,
          exec_graph, document, selected_reviewers, supervisor_feedback, reviews,
          final_feedback, status, writes, events, calls, error, gen_failed, view>>

updVars == <<personas_file, review_app, upd_pc, upd_new, upd_dup, upd_result>>
execVars == <<pc, exec_graph, document, selected_reviewers, supervisor_feedback,
              reviews, final_feedback, status, writes, events, calls, error, gen_failed,
              view>>

NodeNames == {"supervisor", "aggregator"} \cup Ids

\* ------------------------------------------------------------------ pure functions

\* the text generator: its answer is identified by the prompt it answers
Generate(prompt) == <<"gen", prompt>>

\* a node that calls the model again after its first call
invoke_twice(node, c) == [c EXCEPT ![node] = @ + 2]

\* response = model.invoke([HumanMessage(prompt)]): the one call in a node's body
invoke(node, c) == [c EXCEPT ![node] = @ + 1]

\* a reducer that keeps the value it already has on a shared key
merge_reviews_left(left, right) ==
    [k \in (DOMAIN left) \cup (DOMAIN right) |->
        IF k \in DOMAIN left THEN left[k] ELSE right[k]]

\* a reducer that keeps only the newest fragment
merge_reviews_right(left, right) == right

merge_reviews(left, right) ==
    [k \in (DOMAIN left) \cup (DOMAIN right) |->
        IF k \in DOMAIN right THEN right[k] ELSE left[k]]

format_feedback(text) == IF text = <<>> THEN <<>> ELSE <<"html", text>>

supervisor_node(doc) == Generate(<<"supervisor", doc>>)

\* a reviewer that reads what the reviewers before it have returned
reviewer_node_reads_reviews(persona_key, doc) ==
    IF DOMAIN writes = {} THEN Generate(<<"reviewer", persona_key, doc>>)
    ELSE Generate(<<"reviewer", persona_key, doc, writes>>)

reviewer_node(persona_key, doc) == Generate(<<"reviewer", persona_key, doc>>)

\* the fragment a reviewer node returns for the key "reviews":
\* {persona_config['name']: response.content}
ReviewerFragment(graph, persona_key, doc) ==
    [n \in {graph.personas[persona_key]} |-> reviewer_node(persona_key, doc)]

aggregator_node(sup, revs) == Generate(<<"aggregator", sup, revs>>)

\* an aggregator that also returns the key "supervisor_feedback"
AggregatorFragmentClobbers(sup, revs) ==
    [final_feedback |-> aggregator_node(sup, revs),
     supervisor_feedback |-> aggregator_node(sup, revs)]

\* the state update aggregator_node returns: {"final_feedback": response.content}
AggregatorFragment(sup, revs) == [final_feedback |-> aggregator_node(sup, revs)]

\* the value of a last-value channel after the executor applied a state update
ChannelAfter(frag, field, old) == IF field \in DOMAIN frag THEN frag[field] ELSE old

\* ------------------------------------------------------------------ create_workflow

\* the names create_workflow gives to its static nodes before it adds the
\* persona nodes; new_id "Supervisor" is lowered to one of them
ReservedIds == {"supervisor"}

\* workflow.compile() validates the graph.  With no persona there is no edge
\* into "aggregator": langgraph releases that check reachability raise
\* ValueError, the others return a workflow without reviewer nodes.
\* A persona key equal to the name of a static node makes add_node raise
\* ValueError (the node is already present) in every release.
CompileOutcomes(personas) ==
    IF DOMAIN personas \cap ReservedIds # {} THEN {FALSE}
    ELSE IF DOMAIN personas = {} THEN {TRUE, FALSE} ELSE {TRUE}

END == "__end__"

\* a workflow built without the loop that adds the edges key -> "aggregator"
create_workflow_no_join(personas) ==
    [nodes |-> {"supervisor", "aggregator"} \cup DOMAIN personas,
     entry_point |-> "supervisor",
     path_map |-> [key \in DOMAIN personas |-> key],
     edges |-> {<<"aggregator", END>>},
     personas |-> personas]

\* the compiled workflow: the two static nodes and one node per persona key,
\* the entry point, the path map of the conditional edge after "supervisor",
\* the fixed edges, and the persona config each reviewer node closes over
create_workflow(personas) ==
    [nodes |-> {"supervisor", "aggregator"} \cup DOMAIN personas,
     entry_point |-> "supervisor",
     path_map |-> [key \in DOMAIN personas |-> key],
     edges |-> {<<key, "aggregator">> : key \in DOMAIN personas}
                  \cup {<<"aggregator", END>>},
     personas |-> personas]

\* the reviewer nodes of a compiled workflow
PersonaNodes(graph) == graph.nodes \ {"supervisor", "aggregator"}

\* the conditional edge looks every routed key up in its path map: a key that
\* is not in it raises KeyError inside the supervisor's task
RouteOk(graph, sel) == sel \subseteq DOMAIN graph.path_map

\* the nodes the conditional edge triggers for the routed keys
Targets(graph, sel) == {graph.path_map[r] : r \in sel}

\* the nodes the fixed edges trigger once the nodes of `done` have returned
Successors(graph, done) == {e[2] : e \in {d \in graph.edges : d[1] \in done}}

\* ------------------------------------------------------------------ the executor (workflow.stream)

\* a merge that applies the writes in the order the tasks returned in
TaskOrderCompletion(S) ==
    LET f == SelectSeq(events, LAMBDA e : e.node \in S)
    IN [i \in 1..Len(f) |-> f[i].node]

\* order in which the writes of one superstep are applied
RECURSIVE TaskOrder(_)
TaskOrder(S) ==
    IF S = {} THEN <<>>
    ELSE LET p == CHOOSE q \in S : \A r \in S : IdIndex(q) <= IdIndex(r)
         IN <<p>> \o TaskOrder(S \ {p})

RECURSIVE ApplyWrites(_, _, _)
ApplyWrites(acc, order, w) ==
    IF order = <<>> THEN acc
    ELSE ApplyWrites(merge_reviews(acc, w[Head(order)]), Tail(order), w)

NoTasks == [p \in {} |-> "queued"]
NoWrites == [p \in {} |-> EmptyDict]
NoCalls == [n \in NodeNames |-> 0]
EmptyView == [supervisor_feedback |-> <<>>, reviews |-> EmptyDict, final_feedback |-> <<>>]

Event(node, key, value) == [node |-> node, key |-> key, value |-> value]

\* an execution that looks the global up again at every step
ExecGraphGlobal == review_app

\* the graph the running execution routes and runs its nodes with
ExecGraph == exec_graph

\* a router that fans out to every persona node
RoutedAll(graph, sel) == DOMAIN graph.path_map

\* the router of the conditional edge: lambda state: state["selected_reviewers"]
Routed(graph, sel) == sel

\* a node that catches the exception and returns normally
RaisedSwallowed(ok) == FALSE

\* model.invoke raised: no node catches it, the exception leaves the node
Raised(ok) == ~ok

\* a join that waits only until every reviewer has been started
NoneQueued(st) == \A p \in DOMAIN st : st[p] # "queued"

\* a join that waits for every persona node of the graph
AllDoneEveryPersona(st) ==
    \A p \in PersonaNodes(exec_graph) : p \in DOMAIN st /\ st[p] = "done"

\* an aggregator triggered by the first reviewer that returns
AnyDone(st) == \E p \in DOMAIN st : st[p] = "done"

\* the join before "aggregator": every task of the fan-out superstep returned
AllDone(st) == \A p \in DOMAIN st : st[p] = "done"

\* a stream that holds the reviewers' events back
ObservedNever(phase) == FALSE

\* a stream that keeps yielding after it raised
ObservedAlways(phase) == TRUE

\* stream() yields the event of a finished task unless it has already raised
Observed(phase) == phase # "FAILED"

\* ------------------------------------------------------------------ app.py: review()

\* review() without its "select at least one reviewer" check
ValidSelectionAny(sel) == TRUE

\* if not selected_reviewers: return 400
ValidSelection(sel) == sel # {}

ThreadsQuiet == \A p \in DOMAIN status : status[p] # "running"

ResetExecution(doc, sel) ==
    /\ document' = doc
    /\ selected_reviewers' = sel
    /\ supervisor_feedback' = <<>>
    /\ reviews' = EmptyDict
    /\ final_feedback' = <<>>
    /\ status' = NoTasks
    /\ writes' = NoWrites
    /\ events' = <<>>
    /\ calls' = NoCalls
    /\ error' = "none"
    /\ gen_failed' = {}
    /\ view' = EmptyView

\* a POST /review arrives: validation, then review_app.stream(inputs)
Review(doc, sel) ==
    /\ pc \in {"idle", "rejected", "DONE", "FAILED"}
    /\ ThreadsQuiet
    /\ ResetExecution(doc, sel)
    /\ IF doc = <<>> \/ ~ValidSelection(sel)
       THEN pc' = "rejected" /\ exec_graph' = exec_graph
       ELSE pc' = "PENDING" /\ exec_graph' = review_app
    /\ UNCHANGED updVars

SupervisorStart ==
    /\ pc = "PENDING"
    /\ pc' = "SUPERVISOR_RUNNING"
    /\ calls' = invoke("supervisor", calls)
    /\ UNCHANGED <<exec_graph, document, selected_reviewers, supervisor_feedback,
                   reviews, final_feedback, status, writes, events, error, gen_failed,
                   view>>
    /\ UNCHANGED updVars

\* model.invoke returns or raises in supervisor_node; the conditional edge routes
SupervisorReturn(ok) ==
    /\ pc = "SUPERVISOR_RUNNING"
    /\ gen_failed' = IF ok THEN gen_failed ELSE gen_failed \cup {"supervisor"}
    /\ IF Raised(ok)
       THEN /\ pc' = "FAILED"
            /\ error' = "GenerationError"
            /\ UNCHANGED <<supervisor_feedback, status, events, view>>
       ELSE IF ~RouteOk(ExecGraph, Routed(ExecGraph, selected_reviewers))
       THEN /\ pc' = "FAILED"
            /\ error' = "KeyError"
            /\ UNCHANGED <<supervisor_feedback, status, events, view>>
       ELSE LET out == supervisor_node(document) IN
            /\ supervisor_feedback' = out
            /\ events' = Append(events, Event("supervisor", "supervisor_feedback", out))
            /\ view' = [view EXCEPT !.supervisor_feedback = format_feedback(out)]
            /\ status' = [p \in Targets(ExecGraph, Routed(ExecGraph, selected_reviewers))
                             |-> "queued"]
            /\ pc' = IF Routed(ExecGraph, selected_reviewers) = {}
                     THEN "DONE" ELSE "FANOUT_RUNNING"
            /\ error' = error
    /\ UNCHANGED <<exec_graph, document, selected_reviewers, reviews, final_feedback,
                   writes, calls>>
    /\ UNCHANGED updVars

\* a pool thread picks up the task of reviewer p and calls model.invoke
ReviewerStart(p) ==
    /\ pc = "FANOUT_RUNNING"
    /\ p \in DOMAIN status
    /\ status[p] = "queued"
    /\ status' = [status EXCEPT ![p] = "running"]
    /\ calls' = invoke(p, calls)
    /\ UNCHANGED <<pc, exec_graph, document, selected_reviewers, supervisor_feedback,
                   reviews, final_feedback, writes, events, error, gen_failed, view>>
    /\ UNCHANGED updVars

\* review()'s loop body on the event of reviewer p
FoldReviewer(v, sel, p, frag) ==
    IF p \in sel
    THEN [v EXCEPT !.reviews =
            merge_reviews(@, [n \in DOMAIN frag |-> format_feedback(frag[n])])]
    ELSE v

\* model.invoke returns or raises in reviewer p
ReviewerReturn(p, ok) ==
    /\ p \in DOMAIN status
    /\ status[p] = "running"
    /\ gen_failed' = IF ok THEN gen_failed ELSE gen_failed \cup {p}
    /\ IF Observed(pc)
       THEN IF ~Raised(ok)
            THEN LET frag == ReviewerFragment(ExecGraph, p, document) IN
                 /\ status' = [status EXCEPT ![p] = "done"]
                 /\ writes' = [q \in (DOMAIN writes) \cup {p} |->
                                 IF q = p THEN frag ELSE writes[q]]
                 /\ events' = Append(events, Event(p, "reviews", frag))
                 /\ view' = FoldReviewer(view, selected_reviewers, p, frag)
                 /\ UNCHANGED <<pc, error>>
            ELSE /\ status' = [q \in DOMAIN status |->
                                 IF q = p THEN "failed"
                                 ELSE IF status[q] = "queued" THEN "cancelled"
                                 ELSE status[q]]
                 /\ pc' = "FAILED"
                 /\ error' = "GenerationError"
                 /\ UNCHANGED <<writes, events, view>>
       ELSE \* the stream already raised: the thread ends unobserved
            /\ status' = [status EXCEPT ![p] = IF ok THEN "done" ELSE "failed"]
            /\ UNCHANGED <<pc, error, writes, events, view>>
    /\ UNCHANGED <<exec_graph, document, selected_reviewers, supervisor_feedback,
                   reviews, final_feedback, calls>>
    /\ UNCHANGED updVars

\* every task of the fan-out superstep is done: its writes are applied to the
\* "reviews" channel through merge_reviews and the aggregator's task starts
AggregatorStart ==
    /\ pc = "FANOUT_RUNNING"
    /\ AllDone(status)
    /\ "aggregator" \in Successors(ExecGraph, DOMAIN status)
    /\ reviews' = ApplyWrites(reviews, TaskOrder(DOMAIN writes), writes)
    /\ writes' = NoWrites
    /\ pc' = "AGGREGATOR_RUNNING"
    /\ calls' = invoke("aggregator", calls)
    /\ UNCHANGED <<exec_graph, document, selected_reviewers, supervisor_feedback,
                   final_feedback, status, events, error, gen_failed, view>>
    /\ UNCHANGED updVars

AggregatorReturn(ok) ==
    /\ pc = "AGGREGATOR_RUNNING"
    /\ Successors(ExecGraph, {"aggregator"}) = {END}
    /\ gen_failed' = IF ok THEN gen_failed ELSE gen_failed \cup {"aggregator"}
    /\ IF ~Raised(ok)
       THEN LET frag == AggregatorFragment(supervisor_feedback, reviews)
                out == frag.final_feedback IN
            /\ final_feedback' = out
            /\ supervisor_feedback' =
                 ChannelAfter(frag, "supervisor_feedback", supervisor_feedback)
            /\ events' = Append(events, Event("aggregator", "final_feedback", out))
            /\ view' = [view EXCEPT !.final_feedback = format_feedback(out)]
            /\ pc' = "DONE"
            /\ error' = error
       ELSE /\ pc' = "FAILED"
            /\ error' = "GenerationError"
            /\ UNCHANGED <<final_feedback, supervisor_feedback, events, view>>
    /\ UNCHANGED <<exec_graph, document, selected_reviewers, reviews, status, writes,
                   calls>>
    /\ UNCHANGED updVars

\* ------------------------------------------------------------------ app.py: update_personas()

NoNew == [id |-> "", name |-> ""]
NewEntries == {NoNew} \cup [id : Ids \cup ReservedIds, name : Names]

\* new_personas: the name_<id> fields, then the new_id entry written over them
NewPersonas(kept, new) ==
    IF new = NoNew THEN kept
    ELSE [k \in (DOMAIN kept) \cup {new.id} |-> IF k = new.id THEN new.name ELSE kept[k]]

\* the global rebound before create_workflow has returned
InstalledAlways(old, new, ok) == create_workflow(new)

\* the reference review_app holds after create_workflow returned (ok) or raised
Installed(old, new, ok) == IF ok THEN create_workflow(new) ELSE old

\* the form is read and save_personas(new_personas) has written the file
UpdateSave(kept, new) ==
    /\ upd_pc = "idle"
    /\ upd_pc' = "saved"
    /\ upd_new' = NewPersonas(kept, new)
    /\ upd_dup' = (new # NoNew /\ new.id \in DOMAIN kept)
    /\ personas_file' = NewPersonas(kept, new)
    /\ upd_result' = "none"
    /\ UNCHANGED review_app
    /\ UNCHANGED execVars

\* create_workflow(new_personas) returns and the global is rebound, or it raises
UpdateCompile(ok) ==
    /\ upd_pc = "saved"
    /\ ok \in CompileOutcomes(upd_new)
    /\ review_app' = Installed(review_app, upd_new, ok)
    /\ upd_result' = IF ok THEN "redirect" ELSE "error"
    /\ upd_pc' = "idle"
    /\ upd_dup' = FALSE
    /\ upd_new' = EmptyDict
    /\ UNCHANGED personas_file
    /\ UNCHANGED execVars

\* ------------------------------------------------------------------ specification

\* personas.json as found at startup; the module-level create_workflow succeeded
Init ==
    /\ personas_file \in {d \in PersonaDicts : DOMAIN d # {}}
    /\ review_app = create_workflow(personas_file)
    /\ upd_pc = "idle"
    /\ upd_new = EmptyDict
    /\ upd_dup = FALSE
    /\ upd_result = "none"
    /\ pc = "idle"
    /\ exec_graph = review_app
    /\ document = <<>>
    /\ selected_reviewers = {}
    /\ supervisor_feedback = <<>>
    /\ reviews = EmptyDict
    /\ final_feedback = <<>>
    /\ status = NoTasks
    /\ writes = NoWrites
    /\ events = <<>>
    /\ calls = NoCalls
    /\ error = "none"
    /\ gen_failed = {}
    /\ view = EmptyView

Next ==
    \/ \E doc \in Docs, sel \in SUBSET Ids : Review(doc, sel)
    \/ SupervisorStart
    \/ \E ok \in BOOLEAN : SupervisorReturn(ok)
    \/ \E p \in Ids : ReviewerStart(p)
    \/ \E p \in Ids, ok \in BOOLEAN : ReviewerReturn(p, ok)
    \/ AggregatorStart
    \/ \E ok \in BOOLEAN : AggregatorReturn(ok)
    \/ \E kept \in PersonaDicts, new \in NewEntries : UpdateSave(kept, new)
    \/ \E ok \in BOOLEAN : UpdateCompile(ok)

Spec == Init /\ [][Next]_vars

\* The review requests alone, against any workflow update_personas can have
\* installed (update_personas never writes the variables of an execution).
ExecInit ==
    /\ personas_file \in PersonaDicts
    /\ review_app = create_workflow(personas_file)
    /\ upd_pc = "idle"
    /\ upd_new = EmptyDict
    /\ upd_dup = FALSE
    /\ upd_result = "none"
    /\ pc = "idle"
    /\ exec_graph = review_app
    /\ document = <<>>
    /\ selected_reviewers = {}
    /\ supervisor_feedback = <<>>
    /\ reviews = EmptyDict
    /\ final_feedback = <<>>
    /\ status = NoTasks
    /\ writes = NoWrites
    /\ events = <<>>
    /\ calls = NoCalls
    /\ error = "none"
    /\ gen_failed = {}
    /\ view = EmptyView

ExecNext ==
    \/ \E doc \in Docs, sel \in SUBSET Ids : Review(doc, sel)
    \/ SupervisorStart
    \/ \E ok \in BOOLEAN : SupervisorReturn(ok)
    \/ \E p \in Ids : ReviewerStart(p)
    \/ \E p \in Ids, ok \in BOOLEAN : ReviewerReturn(p, ok)
    \/ AggregatorStart
    \/ \E ok \in BOOLEAN : AggregatorReturn(ok)

ExecSpec == ExecInit /\ [][ExecNext]_vars

\* ------------------------------------------------------------------ properties

Terminal == {"idle", "rejected", "DONE", "FAILED"}
InFlight == pc \in {"PENDING", "SUPERVISOR_RUNNING", "FANOUT_RUNNING", "AGGREGATOR_RUNNING"}

\* number of events of node n that stream() has yielded
NodeCount(n) == Cardinality({i \in 1..Len(events) : events[i].node = n})

\* the display names of the selected personas, in the graph of the execution
SelectedNames ==
    {exec_graph.personas[p] : p \in selected_reviewers \cap PersonaNodes(exec_graph)}

DistinctNames ==
    \A p, q \in selected_reviewers \cap PersonaNodes(exec_graph) :
        p # q => exec_graph.personas[p] # exec_graph.personas[q]

\* C1: a failure-free execution with the non-empty selection S emits exactly
\* |S| + 2 events: one of the supervisor, one of each member of S, one of the
\* aggregator, and none of a persona that is not in S.
C1_EventCount ==
    pc = "DONE" =>
        /\ Len(events) = Cardinality(selected_reviewers) + 2
        /\ NodeCount("supervisor") = 1
        /\ NodeCount("aggregator") = 1
        /\ \A p \in Ids : NodeCount(p) = IF p \in selected_reviewers THEN 1 ELSE 0

\* a finished execution whose selection left a persona of the graph out
C1_Witness ==
    /\ pc = "DONE"
    /\ selected_reviewers # {}
    /\ selected_reviewers \subseteq PersonaNodes(exec_graph)
    /\ selected_reviewers # PersonaNodes(exec_graph)

\* C2: the supervisor's event precedes every reviewer's event and every
\* reviewer's event precedes the aggregator's, whatever order the reviewers
\* return in; no reviewer event without the supervisor's, no aggregator event
\* before the event of every selected reviewer.
C2_EventOrder ==
    /\ \A i, j \in 1..Len(events) :
        /\ (events[i].node = "supervisor" /\ events[j].node # "supervisor") => i < j
        /\ (events[i].node \in Ids /\ events[j].node = "aggregator") => i < j
    /\ Len(events) > 0 => events[1].node = "supervisor"
    /\ NodeCount("aggregator") > 0 => \A p \in selected_reviewers : NodeCount(p) > 0

\* a finished execution whose reviewers returned against the task order
C2_Witness ==
    /\ pc = "DONE"
    /\ Len(events) = 4
    /\ events[2].node = IdPool[2]
    /\ events[3].node = IdPool[1]

\* C3: when the aggregator starts, the keys of `reviews` are exactly the
\* display names of the selected personas and each selected persona's display
\* name is bound to the output of that persona's own node.
C3_OwnOutput ==
    pc = "AGGREGATOR_RUNNING" =>
        /\ DOMAIN reviews = SelectedNames
        /\ \A p \in selected_reviewers :
             reviews[exec_graph.personas[p]] = reviewer_node(p, document)

\* C4: a selection with an id that is no persona node of the graph fails before
\* the supervisor runs: model.invoke is never called by the supervisor and no
\* event is emitted.
C4_RejectedBeforeSupervisor ==
    ~(selected_reviewers \subseteq PersonaNodes(exec_graph)) =>
        /\ calls["supervisor"] = 0
        /\ events = <<>>

\* C5: with an empty selection the request fails before the workflow is
\* streamed: no node calls the text generator and no event is emitted.
C5_EmptySelection ==
    selected_reviewers = {} =>
        /\ pc \in {"idle", "rejected"}
        /\ events = <<>>
        /\ \A n \in NodeNames : calls[n] = 0

\* a request with a document and no reviewer, answered 400
C5_Witness ==
    /\ pc = "rejected"
    /\ selected_reviewers = {}
    /\ document # <<>>

\* C6 as stated: after the text generator failed in a reviewer, the aggregator
\* never runs, no final_feedback event exists, and every other reviewer that
\* ran to completion has its event emitted.
C6_InFlightEmitted ==
    (gen_failed \cap Ids # {}) =>
        /\ calls["aggregator"] = 0
        /\ NodeCount("aggregator") = 0
        /\ \A q \in DOMAIN status : status[q] = "done" => NodeCount(q) = 1

\* C6 amended: after the text generator failed in a reviewer, the aggregator
\* never runs and no final_feedback is produced; the events emitted before the
\* failure stay, and once the stream has raised no event is emitted any more,
\* also not for a reviewer that was in flight and runs to completion.
C6_NoEventAfterFailure ==
    /\ [](gen_failed \cap Ids # {} =>
            /\ pc = "FAILED"
            /\ calls["aggregator"] = 0
            /\ NodeCount("aggregator") = 0
            /\ final_feedback = <<>>
            /\ view.final_feedback = <<>>)
    /\ [][pc' = "FAILED" => events' = events]_vars

\* a reviewer failed while another was in flight; that one returned unobserved
C6_Witness ==
    /\ pc = "FAILED"
    /\ \E p, q \in DOMAIN status :
        /\ p \in gen_failed
        /\ status[q] = "done"
        /\ NodeCount(q) = 0

\* C7: a failure of the supervisor leaves zero events and starts no reviewer
\* and no aggregator; a failure of the aggregator leaves the supervisor's event
\* and the |S| reviewer events emitted, supervisor_feedback and reviews set,
\* and no aggregator event.
C7_AbortNoRollback ==
    /\ "supervisor" \in gen_failed =>
        /\ pc = "FAILED"
        /\ events = <<>>
        /\ status = NoTasks
        /\ \A n \in Ids \cup {"aggregator"} : calls[n] = 0
    /\ "aggregator" \in gen_failed =>
        /\ pc = "FAILED"
        /\ Len(events) = Cardinality(selected_reviewers) + 1
        /\ NodeCount("supervisor") = 1
        /\ NodeCount("aggregator") = 0
        /\ \A p \in selected_reviewers : NodeCount(p) = 1
        /\ supervisor_feedback = supervisor_node(document)
        /\ DOMAIN reviews = SelectedNames
        /\ final_feedback = <<>>

\* the aggregator failed after two reviewers had returned
C7_Witness ==
    /\ "aggregator" \in gen_failed
    /\ Cardinality(selected_reviewers) = 2
    /\ Len(events) = 3

\* C8: for a selection with pairwise distinct display names, within one
\* execution `reviews` changes only in the executor's merge step, a key once
\* present stays with its value, and after the merge `reviews` holds one
\* entry per selected reviewer, bound to that reviewer's output.
C8_NoLostUpdate ==
    [][(DistinctNames /\ ~(pc \in Terminal)) =>
        /\ reviews' # reviews =>
             /\ pc = "FANOUT_RUNNING"
             /\ pc' = "AGGREGATOR_RUNNING"
             /\ reviews' = ApplyWrites(reviews, TaskOrder(DOMAIN writes), writes)
        /\ \A k \in DOMAIN reviews : k \in DOMAIN reviews' /\ reviews'[k] = reviews[k]
        /\ pc' = "AGGREGATOR_RUNNING" =>
             /\ Cardinality(DOMAIN reviews') = Cardinality(selected_reviewers)
             /\ \A p \in selected_reviewers :
                  reviews'[exec_graph.personas[p]] = reviewer_node(p, document)
      ]_vars

\* two reviewers with distinct display names have been merged
C8_Witness ==
    /\ pc = "AGGREGATOR_RUNNING"
    /\ DistinctNames
    /\ Cardinality(selected_reviewers) = 2
    /\ Cardinality(DOMAIN reviews) = 2

\* C9: an execution keeps the compiled graph that was installed when it
\* started: while it is in flight its graph does not change, its routing and
\* every reviewer event follow that graph whatever update_personas installs
\* meanwhile, and an execution that starts takes the graph installed then.
C9_GraphSnapshot ==
    /\ [](/\ \A i \in 1..Len(events) :
               events[i].node \in Ids =>
                  /\ events[i].node \in PersonaNodes(exec_graph)
                  /\ DOMAIN events[i].value = {exec_graph.personas[events[i].node]}
          /\ error = "KeyError" =>
               ~(selected_reviewers \subseteq PersonaNodes(exec_graph))
          /\ pc \in {"FANOUT_RUNNING", "AGGREGATOR_RUNNING", "DONE"} =>
               selected_reviewers \subseteq PersonaNodes(exec_graph))
    /\ [][/\ InFlight => exec_graph' = exec_graph
          /\ (~InFlight /\ InFlight') => exec_graph' = review_app']_vars

\* the global was replaced while the execution that reached its aggregator ran
C9_Witness ==
    /\ pc = "AGGREGATOR_RUNNING"
    /\ upd_result = "redirect"
    /\ review_app # exec_graph

GraphEdges(graph) ==
    {<<"supervisor", graph.path_map[k]>> : k \in DOMAIN graph.path_map} \cup graph.edges

\* the pairs joined by a path of at most n + 1 edges of E
RECURSIVE PathsWithin(_, _)
PathsWithin(E, n) ==
    IF n = 0 THEN E
    ELSE LET T == PathsWithin(E, n - 1)
         IN T \cup {<<z[1][1], z[2][2]>> : z \in {w \in T \X E : w[1][2] = w[2][1]}}

\* C11: a compiled graph has the nodes supervisor, aggregator and one per
\* persona id (|P| + 2 nodes); its edges are exactly supervisor -> each persona
\* node, each persona node -> aggregator and aggregator -> END; so it has no
\* cycle, supervisor is its entry, aggregator the only node with an edge to
\* END, and no edge joins two persona nodes.
C11_GraphShape ==
    \A g \in {review_app, exec_graph} :
        LET P == DOMAIN g.personas
            E == GraphEdges(g)
        IN /\ g.nodes = {"supervisor", "aggregator"} \cup P
           /\ Cardinality(g.nodes) = Cardinality(P) + 2
           /\ E = {<<"supervisor", k>> : k \in P}
                    \cup {<<k, "aggregator">> : k \in P}
                    \cup {<<"aggregator", END>>}
           /\ \A e \in PathsWithin(E, Cardinality(g.nodes)) : e[1] # e[2]
           /\ g.entry_point = "supervisor"
           /\ \A e \in E : e[2] # "supervisor"
           /\ {e[1] : e \in {d \in E : d[2] = END}} = {"aggregator"}
           /\ \A e \in E : ~(e[1] \in P /\ e[2] \in P)

\* a graph of two personas is installed and its fan-out is running
C11_Witness ==
    /\ pc = "FANOUT_RUNNING"
    /\ Cardinality(PersonaNodes(exec_graph)) >= 2
    /\ exec_graph = review_app

\* the selected persona whose write is applied last among those that share
\* the display name n
LastWriter(graph, sel, n) ==
    CHOOSE p \in sel :
        /\ graph.personas[p] = n
        /\ \A q \in sel : graph.personas[q] = n => IdIndex(q) <= IdIndex(p)

\* `reviews` after the fan-out step, from the inputs of the execution alone
ExpectedReviews(graph, sel, doc) ==
    [n \in {graph.personas[p] : p \in sel} |->
        Generate(<<"reviewer", LastWriter(graph, sel, n), doc>>)]

\* the events of a failure-free execution, from its inputs alone
ExpectedEvent(graph, sel, doc, node) ==
    IF node = "supervisor"
    THEN Event(node, "supervisor_feedback", Generate(<<"supervisor", doc>>))
    ELSE IF node = "aggregator"
    THEN Event(node, "final_feedback",
               Generate(<<"aggregator", Generate(<<"supervisor", doc>>),
                          ExpectedReviews(graph, sel, doc)>>))
    ELSE Event(node, "reviews",
               [n \in {graph.personas[node]} |-> Generate(<<"reviewer", node, doc>>)])

\* the event sequence of the execution whose reviewers return in task order
CanonicalEvents(graph, sel, doc) ==
    LET order == <<"supervisor">> \o TaskOrder(sel) \o <<"aggregator">>
    IN [i \in 1..Len(order) |-> ExpectedEvent(graph, sel, doc, order[i])]

\* C12 as stated: every failure-free execution of a graph on a document and a
\* selection yields one and the same event sequence (the one of the execution
\* whose reviewers return in task order), whatever the scheduling.
C12_SameEventSequence ==
    pc = "DONE" => events = CanonicalEvents(exec_graph, selected_reviewers, document)

\* C12 amended: the final state of a failure-free execution and the set of its
\* events are functions of the graph, the document and the selection alone,
\* with the supervisor's event first and the aggregator's last; the order of
\* the reviewers' events in between is the order they returned in.
C12_SameFinalState ==
    pc = "DONE" =>
        /\ supervisor_feedback = Generate(<<"supervisor", document>>)
        /\ reviews = ExpectedReviews(exec_graph, selected_reviewers, document)
        /\ final_feedback =
             ExpectedEvent(exec_graph, selected_reviewers, document, "aggregator").value
        /\ Len(events) = Cardinality(selected_reviewers) + 2
        /\ {events[i] : i \in 1..Len(events)} =
             {ExpectedEvent(exec_graph, selected_reviewers, document, n) :
                n \in {"supervisor", "aggregator"} \cup selected_reviewers}
        /\ events[1].node = "supervisor"
        /\ events[Len(events)].node = "aggregator"

\* two reviewers that share a display name returned against the task order
C12_Witness ==
    /\ pc = "DONE"
    /\ Cardinality(selected_reviewers) = 2
    /\ ~DistinctNames
    /\ events[2].node = IdPool[2]
    /\ events # CanonicalEvents(exec_graph, selected_reviewers, document)

\* the reviewer tasks whose computation is in progress
RunningReviewers == {p \in DOMAIN status : status[p] = "running"}

\* C13: the supervisor and the aggregator run alone: while the supervisor
\* computes no reviewer and no aggregator has started; a reviewer starts only
\* after the supervisor has completed; while the aggregator computes every
\* selected reviewer has completed; a reviewer that computes overlaps with
\* reviewers only.
C13_RunsAlone ==
    /\ pc = "SUPERVISOR_RUNNING" =>
         /\ status = NoTasks
         /\ \A n \in Ids \cup {"aggregator"} : calls[n] = 0
    /\ \A p \in Ids : calls[p] > 0 =>
         /\ NodeCount("supervisor") = 1
         /\ supervisor_feedback = supervisor_node(document)
    /\ calls["aggregator"] > 0 =>
         /\ RunningReviewers = {}
         /\ \A p \in selected_reviewers : p \in DOMAIN status /\ status[p] = "done"
    /\ RunningReviewers # {} =>
         /\ pc \in {"FANOUT_RUNNING", "FAILED"}
         /\ calls["aggregator"] = 0
         /\ calls["supervisor"] = 1

\* two reviewers compute at the same time
C13_Witness ==
    /\ pc = "FANOUT_RUNNING"
    /\ Cardinality(RunningReviewers) = 2

\* C14: an event is delivered only for a node that has completed, and the
\* event of a reviewer that completed is delivered at once, without waiting for
\* the other reviewers of the step (unless the stream has already raised).
C14_EventAfterCompletion ==
    /\ \A i \in 1..Len(events) :
         /\ events[i].node = "supervisor" =>
              /\ ~(pc \in {"PENDING", "SUPERVISOR_RUNNING"})
              /\ events[i].value = supervisor_feedback
         /\ events[i].node \in Ids =>
              /\ events[i].node \in DOMAIN status
              /\ status[events[i].node] = "done"
         /\ events[i].node = "aggregator" =>
              /\ pc = "DONE"
              /\ events[i].value = final_feedback
    /\ pc # "FAILED" =>
         \A p \in DOMAIN status : status[p] = "done" => NodeCount(p) = 1

\* one reviewer's event has been delivered while another reviewer still runs
C14_Witness ==
    /\ pc = "FANOUT_RUNNING"
    /\ \E p, q \in DOMAIN status :
         /\ NodeCount(p) = 1
         /\ status[q] = "running"
         /\ NodeCount(q) = 0

C16_WriteOnceFields ==
    /\ [](/\ pc \in {"FANOUT_RUNNING", "AGGREGATOR_RUNNING", "DONE"} =>
               supervisor_feedback = supervisor_node(document)
          /\ pc \in {"PENDING", "SUPERVISOR_RUNNING"} => supervisor_feedback = <<>>
          /\ pc # "DONE" => final_feedback = <<>>
          /\ pc = "DONE" => final_feedback = aggregator_node(supervisor_feedback, reviews))
    /\ [][(pc \in {"PENDING", "SUPERVISOR_RUNNING", "FANOUT_RUNNING",
                   "AGGREGATOR_RUNNING"}
             \/ (pc = "FAILED" /\ pc' = "FAILED")) =>
            /\ document' = document
            /\ selected_reviewers' = selected_reviewers
            /\ supervisor_feedback' # supervisor_feedback =>
                 /\ pc = "SUPERVISOR_RUNNING"
                 /\ supervisor_feedback = <<>>
                 /\ supervisor_feedback' = supervisor_node(document)
            /\ final_feedback' # final_feedback =>
                 /\ pc = "AGGREGATOR_RUNNING"
                 /\ final_feedback = <<>>
            /\ status' # status =>
                 /\ supervisor_feedback' = supervisor_feedback \/ pc = "SUPERVISOR_RUNNING"
                 /\ final_feedback' = final_feedback
                 /\ reviews' = reviews
            /\ reviews' # reviews =>
                 /\ supervisor_feedback' = supervisor_feedback
                 /\ final_feedback' = final_feedback
                 /\ \A p \in DOMAIN writes : DOMAIN writes[p] \subseteq DOMAIN reviews'
          ]_vars

\* the aggregator has written final_feedback after two reviewers returned
C16_Witness ==
    /\ pc = "DONE"
    /\ final_feedback # <<>>
    /\ supervisor_feedback = supervisor_node(document)
    /\ Cardinality(selected_reviewers) = 2
    /\ NodeCount("aggregator") = 1

\* the number of model.invoke calls of the execution
RECURSIVE TotalCalls(_)
TotalCalls(N) ==
    IF N = {} THEN 0
    ELSE LET n == CHOOSE m \in N : TRUE IN calls[n] + TotalCalls(N \ {n})

\* C17: every node that runs calls the text generator exactly once and a
\* persona that is not selected never calls it: a failure-free execution with
\* selection S makes |S| + 2 calls, and no call is repeated after a failure.
C17_OneCallPerNode ==
    /\ \A n \in NodeNames : calls[n] <= 1
    /\ \A p \in Ids : calls[p] = 1 =>
         /\ p \in selected_reviewers
         /\ p \in DOMAIN status
         /\ status[p] # "queued"
    /\ \A p \in DOMAIN status : ~(status[p] \in {"queued", "cancelled"}) => calls[p] = 1
    /\ \A n \in gen_failed : calls[n] = 1
    /\ \A i \in 1..Len(events) : calls[events[i].node] = 1
    /\ pc = "DONE" =>
         /\ TotalCalls(NodeNames) = Cardinality(selected_reviewers) + 2
         /\ calls["supervisor"] = 1
         /\ calls["aggregator"] = 1
         /\ \A p \in selected_reviewers : calls[p] = 1

\* a reviewer's call failed while a persona of the graph was not selected
C17_Witness ==
    /\ pc = "FAILED"
    /\ gen_failed \cap Ids # {}
    /\ PersonaNodes(exec_graph) \ selected_reviewers # {}
    /\ TotalCalls(NodeNames) = 2

\* The executor's scheduling: the main thread runs every superstep it has
\* prepared, the pool runs every task submitted to it, and every model.invoke
\* call comes back (with an answer or an exception).
FairExecSpec ==
    /\ ExecSpec
    /\ WF_vars(SupervisorStart)
    /\ WF_vars(\E ok \in BOOLEAN : SupervisorReturn(ok))
    /\ WF_vars(\E p \in Ids : ReviewerStart(p))
    /\ WF_vars(\E p \in Ids, ok \in BOOLEAN : ReviewerReturn(p, ok))
    /\ WF_vars(AggregatorStart)
    /\ WF_vars(\E ok \in BOOLEAN : AggregatorReturn(ok))

\* position of a phase in the order of the supersteps
PhaseRank(phase) ==
    CASE phase = "PENDING" -> 1
      [] phase = "SUPERVISOR_RUNNING" -> 2
      [] phase = "FANOUT_RUNNING" -> 3
      [] phase = "AGGREGATOR_RUNNING" -> 4
      [] phase = "DONE" -> 5
      [] OTHER -> 6

\* position of a task's state in the life of a task
TaskRank(st) ==
    CASE st = "queued" -> 1
      [] st = "running" -> 2
      [] OTHER -> 3

\* C18: within an execution the phase only moves forward through PENDING,
\* SUPERVISOR_RUNNING, FANOUT_RUNNING, AGGREGATOR_RUNNING, DONE (or to FAILED),
\* no task goes back to an earlier state and no node runs twice; under fair
\* scheduling an execution with a valid selection whose text-generator calls
\* all return an answer reaches DONE, after at most |S| + 2 events.
C18_ForwardAndTerminates ==
    /\ [][InFlight =>
            /\ pc' # pc => PhaseRank(pc') > PhaseRank(pc)
            /\ \A p \in DOMAIN status :
                 p \in DOMAIN status' /\ TaskRank(status'[p]) >= TaskRank(status[p])
            /\ \A n \in NodeNames : calls'[n] >= calls[n] /\ calls'[n] <= 1
            /\ Len(events') >= Len(events)
         ]_vars
    /\ [](Len(events) <= Cardinality(selected_reviewers) + 2)
    /\ (pc = "PENDING" /\ selected_reviewers # {}
          /\ selected_reviewers \subseteq PersonaNodes(exec_graph))
         ~> (pc = "DONE" \/ gen_failed # {})

\* an execution with a valid selection that left a persona out has reached DONE
C18_Witness ==
    /\ pc = "DONE"
    /\ gen_failed = {}
    /\ selected_reviewers # {}
    /\ PersonaNodes(exec_graph) \ selected_reviewers # {}
    /\ Len(events) = Cardinality(selected_reviewers) + 2

\* the values of a dict
Values(d) == {d[k] : k \in DOMAIN d}

C20_FoldReproducesState ==
    pc = "DONE" =>
        /\ view.supervisor_feedback = format_feedback(supervisor_feedback)
        /\ view.final_feedback = format_feedback(final_feedback)
        /\ DOMAIN view.reviews = DOMAIN reviews
        /\ \A k \in DOMAIN reviews : view.reviews[k] = format_feedback(reviews[k])

\* C21: whenever no persona update is in progress, the persona ids of the
\* persisted store (personas.json, which the pages offer for selection) are
\* exactly the reviewer nodes of the installed compiled graph.
C21_StoreMatchesGraph ==
    upd_pc = "idle" => DOMAIN personas_file = PersonaNodes(review_app)

====
